---- MODULE Spec2Model ----
(***************************************************************************)
(* The authenticated request pipeline of the LMS frontend: useAxios        *)
(* (utils/useAxios.js, kept in src/frontend/src/views/partials/            *)
(* BaseFooter.jsx lines 127-167).  A client captures the credential pair   *)
(* from the cookies when it is created; its request interceptor passes a   *)
(* request through, or awaits one renewal call and then returns the        *)
(* request.  The backend's refresh endpoint and the network are the        *)
(* environment.  The Index page (src/unnamed/part_000 lines 293-369) is    *)
(* the pipeline's caller: its mount effect fetches the course lists and    *)
(* its addToCart posts to the cart and reads the cart list back.           *)
(***************************************************************************)
EXTENDS Integers, Naturals, Sequences, FiniteSets, TLC

\* ------------------------------------------------------------------ bounds
NClients == 2
NRequests == 2
MaxTime == 2
MaxRenewals == 2
\* The expiry scenarios: a token issued at T <= MaxIssuedAt with a lifetime
\* L <= MaxLifetime, requests sent up to time MaxClock.
MaxIssuedAt == 1
MaxLifetime == 5
MaxClock == 10

\* The lifetime the backend gives an access token (expiry = issued-at + lifetime).
Lifetime == 1

Clients == 1..NClients
Requests == 1..NRequests

\* ------------------------------------------------------------------ values
\* An access token string: id 0 is the absent cookie (undefined); ok says
\* whether the string decodes; exp is the expiry instant encoded in it.
NoToken == [id |-> 0, exp |-> 0, ok |-> FALSE]
Jwt(i, e) == [id |-> i, exp |-> e, ok |-> TRUE]
Garbage(i) == [id |-> i, exp |-> 0, ok |-> FALSE]
\* A refresh token is opaque to the client: a number, 0 the absent cookie.
NoRefresh == 0

\* JavaScript truthiness of a cookie value (undefined is falsy).
Truthy(t) == t.id # 0

\* The Authorization header value `Bearer ${token}`, or no header at all.
NoHeader == [scheme |-> "none", credentials |-> NoToken]
Bearer(t) == [scheme |-> "Bearer", credentials |-> t]

\* What the refresh endpoint's call ends with: 2xx and a pair, or a throw.
Failure == [ok |-> FALSE, access |-> NoToken, refresh |-> NoRefresh]
Success(a, f) == [ok |-> TRUE, access |-> a, refresh |-> f]

NoClient == [made |-> FALSE, accessToken |-> NoToken, refreshToken |-> NoRefresh,
             headers |-> NoHeader]
NoCookies == [access_token |-> NoToken, refresh_token |-> NoRefresh]
IdleRequest == [pc |-> "idle", client |-> 0, Authorization |-> NoHeader,
                sent |-> NoRefresh, calls |-> 0, response |-> Failure,
                neterr |-> FALSE, before |-> NoCookies, concurrent |-> {},
                threw |-> FALSE]

VARIABLES
    cookies,       \* persisted session state: the two cookies
    now,           \* wall-clock time
    clients,       \* the axios instances useAxios has returned
    reqs,          \* the requests and where each one's interception stands
    validRefresh,  \* the refresh tokens the backend accepts
    everValid,     \* the refresh tokens the backend has ever accepted
    issued,        \* the number of credential pairs the backend has issued
    singleUse,     \* whether the backend invalidates a refresh token on use
    lastCompleted  \* the request whose accepted renewal call settled last, or 0

\* The Index page (src/unnamed/part_000 lines 293-369).
VARIABLES
    courses,          \* useState([]): the course list shown
    enrolledCourses,  \* useState([]): the student's enrolments
    isLoading,        \* useState(true)
    cartCount,        \* the CartContext value
    user,             \* what isLoggedIn() and UserData()?.user_id give
    mounted,          \* whether the mount effect has run
    courseFetch,      \* the call of fetchCourses made by the mount effect
    enrolledFetch,    \* the call of fetchEnrolledCourses made by the effect
    adds              \* the calls of addToCart

pipelineVars == <<cookies, now, clients, reqs, validRefresh, everValid, issued, singleUse,
                  lastCompleted>>
indexVars == <<courses, enrolledCourses, isLoading, cartCount, user, mounted,
               courseFetch, enrolledFetch, adds>>
vars == <<pipelineVars, indexVars>>

\* The requests whose renewal call has been made and has not yet settled for
\* the interceptor.
InFlight == {q \in Requests : reqs[q].pc \in {"awaiting", "responded"}}

\* ------------------------------------------------------- auth.js (from spec)
\* isAccessTokenExpired: decode the expiry claim; before expiry is not expired,
\* a token that does not decode counts as expired.
isAccessTokenExpired(token, time) == IF token.ok THEN ~(time < token.exp) ELSE TRUE

\* setAuthUser: persist the pair under the two fixed keys.
setAuthUser(access, refresh) == [access_token |-> access, refresh_token |-> refresh]

\* ------------------------------------------------------------- useAxios
\* headers: accessToken ? { Authorization: `Bearer ${accessToken}` } : {}
\* (variant: the header is set without testing accessToken)
MutDefaultHeadersAlways(accessToken) == Bearer(accessToken)
MutDefaultHeadersNeedsRefresh(accessToken) ==
    IF Truthy(accessToken) /\ cookies.refresh_token # NoRefresh
    THEN Bearer(accessToken) ELSE NoHeader
DefaultHeaders(accessToken) == IF Truthy(accessToken) THEN Bearer(accessToken) ELSE NoHeader

\* if (!accessToken || !refreshToken) return req;
\* (variant: && in place of ||)
MutSkipOnlyWhenBothMissing(accessToken, refreshToken) ==
    ~Truthy(accessToken) /\ refreshToken = NoRefresh
SkipRefresh(accessToken, refreshToken) == ~Truthy(accessToken) \/ refreshToken = NoRefresh

\* The interceptor up to its first await: pass through, or start one
\* renewal call with the captured refresh token and suspend.
\* Variants: no expiry check before renewing; no check at all; a decode
\* failure that escapes; a shared in-flight renewal (single-flight); an
\* undecodable token taken as valid; a renewal that is not awaited; the
\* cookies read again at interception; the clock read in another unit; a
\* request held back while an earlier one is in the pipeline.
MutInterceptorAlwaysRenews(req, accessToken, refreshToken, time) ==
    IF SkipRefresh(accessToken, refreshToken)
    THEN [req EXCEPT !.pc = "dispatched"]
    ELSE [req EXCEPT !.pc = "awaiting", !.sent = refreshToken, !.calls = @ + 1]
MutInterceptorSkipsExpiryCheck(req, accessToken, refreshToken, time) ==
    [req EXCEPT !.pc = "dispatched"]
MutInterceptorThrowsOnDecode(req, accessToken, refreshToken, time) ==
    IF SkipRefresh(accessToken, refreshToken)
    THEN [req EXCEPT !.pc = "dispatched"]
    ELSE IF ~accessToken.ok
    THEN [req EXCEPT !.pc = "threw"]
    ELSE IF ~isAccessTokenExpired(accessToken, time)
    THEN [req EXCEPT !.pc = "dispatched"]
    ELSE [req EXCEPT !.pc = "awaiting", !.sent = refreshToken, !.calls = @ + 1]
MutInterceptorSingleFlight(req, accessToken, refreshToken, time) ==
    IF SkipRefresh(accessToken, refreshToken)
    THEN [req EXCEPT !.pc = "dispatched"]
    ELSE IF ~isAccessTokenExpired(accessToken, time)
    THEN [req EXCEPT !.pc = "dispatched"]
    ELSE IF \E q \in Requests : reqs[q].pc \in {"awaiting", "responded"}
                                /\ reqs[q].sent = refreshToken
    THEN [req EXCEPT !.pc = "joined"]
    ELSE [req EXCEPT !.pc = "awaiting", !.sent = refreshToken, !.calls = @ + 1]
MutInterceptorPassesUndecodable(req, accessToken, refreshToken, time) ==
    IF SkipRefresh(accessToken, refreshToken)
    THEN [req EXCEPT !.pc = "dispatched"]
    ELSE IF ~accessToken.ok \/ ~isAccessTokenExpired(accessToken, time)
    THEN [req EXCEPT !.pc = "dispatched"]
    ELSE [req EXCEPT !.pc = "awaiting", !.sent = refreshToken, !.calls = @ + 1]
MutInterceptorDoesNotAwait(req, accessToken, refreshToken, time) ==
    IF SkipRefresh(accessToken, refreshToken)
    THEN [req EXCEPT !.pc = "dispatched"]
    ELSE IF ~isAccessTokenExpired(accessToken, time)
    THEN [req EXCEPT !.pc = "dispatched"]
    ELSE [req EXCEPT !.pc = "dispatched", !.sent = refreshToken, !.calls = @ + 1]
MutInterceptorReadsCookies(req, accessToken, refreshToken, time) ==
    IF SkipRefresh(cookies.access_token, cookies.refresh_token)
    THEN [req EXCEPT !.pc = "dispatched"]
    ELSE IF ~isAccessTokenExpired(cookies.access_token, time)
    THEN [req EXCEPT !.pc = "dispatched"]
    ELSE [req EXCEPT !.pc = "awaiting", !.sent = cookies.refresh_token,
                     !.calls = @ + 1]
MutInterceptorWaitsForEarlier(req, accessToken, refreshToken, time) ==
    IF \E q \in Requests : reqs[q].pc \in {"awaiting", "responded", "queued"}
    THEN [req EXCEPT !.pc = "queued"]
    ELSE IF SkipRefresh(accessToken, refreshToken)
    THEN [req EXCEPT !.pc = "dispatched"]
    ELSE IF ~isAccessTokenExpired(accessToken, time)
    THEN [req EXCEPT !.pc = "dispatched"]
    ELSE [req EXCEPT !.pc = "awaiting", !.sent = refreshToken, !.calls = @ + 1]
MutInterceptorClockInMillis(req, accessToken, refreshToken, time) ==
    IF SkipRefresh(accessToken, refreshToken)
    THEN [req EXCEPT !.pc = "dispatched"]
    ELSE IF ~isAccessTokenExpired(accessToken, time * 1000)
    THEN [req EXCEPT !.pc = "dispatched"]
    ELSE [req EXCEPT !.pc = "awaiting", !.sent = refreshToken, !.calls = @ + 1]
Interceptor(req, accessToken, refreshToken, time) ==
    IF SkipRefresh(accessToken, refreshToken)
    THEN [req EXCEPT !.pc = "dispatched"]
    ELSE IF ~isAccessTokenExpired(accessToken, time)
    THEN [req EXCEPT !.pc = "dispatched"]
    ELSE [req EXCEPT !.pc = "awaiting", !.sent = refreshToken, !.calls = @ + 1]

\* The interceptor after the await: the try block's remainder, or the catch.
\* Gives the request as returned and the cookies as left.
\* Variants: the header is not overwritten; a failure clears the session;
\* the catch rethrows; a failure is retried once; the old refresh token is
\* persisted with the new access token; a failure deletes the cookies; the
\* response is persisted whatever its status.
MutAfterRenewalKeepsHeader(req, response, jar) ==
    IF response.ok
    THEN [req |-> [req EXCEPT !.pc = "dispatched"],
          cookies |-> setAuthUser(response.access, response.refresh)]
    ELSE [req |-> [req EXCEPT !.pc = "dispatched"], cookies |-> jar]
MutAfterRenewalClearsOnFailure(req, response, jar) ==
    IF response.ok
    THEN [req |-> [req EXCEPT !.Authorization = Bearer(response.access),
                              !.pc = "dispatched"],
          cookies |-> setAuthUser(response.access, response.refresh)]
    ELSE [req |-> [req EXCEPT !.Authorization = NoHeader, !.pc = "dispatched"],
          cookies |-> NoCookies]
MutAfterRenewalRethrows(req, response, jar) ==
    IF response.ok
    THEN [req |-> [req EXCEPT !.Authorization = Bearer(response.access),
                              !.pc = "dispatched"],
          cookies |-> setAuthUser(response.access, response.refresh)]
    ELSE [req |-> [req EXCEPT !.pc = "threw"], cookies |-> jar]
MutAfterRenewalRetries(req, response, jar) ==
    IF response.ok
    THEN [req |-> [req EXCEPT !.Authorization = Bearer(response.access),
                              !.pc = "dispatched"],
          cookies |-> setAuthUser(response.access, response.refresh)]
    ELSE IF req.calls < 2
    THEN [req |-> [req EXCEPT !.pc = "awaiting", !.calls = @ + 1], cookies |-> jar]
    ELSE [req |-> [req EXCEPT !.pc = "dispatched"], cookies |-> jar]
MutAfterRenewalKeepsOldRefresh(req, response, jar) ==
    IF response.ok
    THEN [req |-> [req EXCEPT !.Authorization = Bearer(response.access),
                              !.pc = "dispatched"],
          cookies |-> setAuthUser(response.access, req.sent)]
    ELSE [req |-> [req EXCEPT !.pc = "dispatched"], cookies |-> jar]
MutAfterRenewalDeletesOnFailure(req, response, jar) ==
    IF response.ok
    THEN [req |-> [req EXCEPT !.Authorization = Bearer(response.access),
                              !.pc = "dispatched"],
          cookies |-> setAuthUser(response.access, response.refresh)]
    ELSE [req |-> [req EXCEPT !.pc = "dispatched"], cookies |-> NoCookies]
MutAfterRenewalPersistsOnFailure(req, response, jar) ==
    [req |-> [req EXCEPT !.Authorization =
                            IF response.ok THEN Bearer(response.access) ELSE @,
                         !.pc = "dispatched"],
     cookies |-> setAuthUser(response.access, response.refresh)]
AfterRenewal(req, response, jar) ==
    IF response.ok
    THEN [req |-> [req EXCEPT !.Authorization = Bearer(response.access),
                              !.pc = "dispatched"],
          cookies |-> setAuthUser(response.access, response.refresh)]
    ELSE [req |-> [req EXCEPT !.pc = "dispatched"], cookies |-> jar]

\* ------------------------------------------------------------ Index page
\* Bounds of the page model: the calls of addToCart, and the longest array a
\* response carries.
NAdds == 2
MaxItems == 1

Adds == 1..NAdds

\* A JavaScript value as far as the page looks at it: its kind, its elements
\* (of an array) or characters (of a string) or the number itself, and what
\* its `results` property holds when it is an object.
Val(k, items) == [kind |-> k, items |-> items, rkind |-> "undefined", ritems |-> <<>>]
Undefined == Val("undefined", <<>>)
Null == Val("null", <<>>)
Arr(items) == Val("array", items)
Str(chars) == Val("string", chars)
Num(n) == Val("number", <<n>>)
Obj(results) == [kind |-> "object", items |-> <<>>, rkind |-> results.kind,
                 ritems |-> results.items]

\* JavaScript truthiness: undefined, null, "" and 0 are falsy; every array
\* and every object is truthy, an empty array too.
JSTruthy(v) ==
    CASE v.kind \in {"undefined", "null"} -> FALSE
      [] v.kind = "string" -> v.items # <<>>
      [] v.kind = "number" -> v.items[1] # 0
      [] OTHER -> TRUE
\* a || b
Or(a, b) == IF JSTruthy(a) THEN a ELSE b
\* data?.results
Results(data) == IF data.kind = "object" THEN Val(data.rkind, data.ritems) ELSE Undefined
\* data?.length
Length(data) == IF data.kind \in {"array", "string"} THEN Num(Len(data.items)) ELSE Undefined
\* Array.isArray(v)
IsArray(v) == v.kind = "array"

\* What an awaited HTTP call ends with: a response with its data, or a throw.
Rejected == [ok |-> FALSE, data |-> Undefined]
Resolved(data) == [ok |-> TRUE, data |-> data]

\* The response bodies the backend may send: arrays of up to MaxItems
\* courses, a paginated object, an object without results or with results
\* that are no array, a string, null, nothing.
Arrays == {Arr([i \in 1..n |-> i]) : n \in 0..MaxItems}
Plain == Arrays \cup {Undefined, Null, Str(<<>>), Str(<<1>>)}
Bodies == Plain \cup {Obj(v) : v \in Plain}
Outcomes == {Rejected} \cup {Resolved(d) : d \in Bodies}
\* The cart list is an array on success; the body may also be missing.
CartOutcomes == {Rejected, Resolved(Undefined)} \cup {Resolved(d) : d \in Arrays}

NoFetch == [pc |-> "idle", outcome |-> Rejected]
NoAdd == [pc |-> "idle", posted |-> FALSE, toast |-> FALSE, get |-> FALSE,
          outcome |-> Rejected]
\* A visitor: isLoggedIn() is false and UserData()?.user_id is undefined (0).
Visitor == [loggedIn |-> FALSE, userId |-> 0]
Users == [loggedIn : BOOLEAN, userId : {0, 1}]

\* The page as first rendered for user u with count items in the cart context.
FirstRender(u, count) ==
    /\ courses = Arr(<<>>)
    /\ enrolledCourses = Arr(<<>>)
    /\ isLoading = TRUE
    /\ cartCount = count
    /\ user = u
    /\ mounted = FALSE
    /\ courseFetch = NoFetch
    /\ enrolledFetch = NoFetch
    /\ adds = [a \in Adds |-> NoAdd]

\* ------------------------------------------------------------------ Init
\* The browser's cookies before any client exists: nothing, a pair issued at
\* time 0, an undecodable access token, or one of the two cookies missing.
InitialAccess == {NoToken, Jwt(1, Lifetime), Garbage(1)}
InitialRefresh == {NoRefresh, 1}

Init ==
    /\ cookies \in [access_token : InitialAccess, refresh_token : InitialRefresh]
    /\ now = 0
    /\ clients = [c \in Clients |-> NoClient]
    /\ reqs = [r \in Requests |-> IdleRequest]
    /\ validRefresh \in {{}, {cookies.refresh_token}}
    /\ NoRefresh \notin validRefresh
    /\ everValid = validRefresh
    /\ issued = 1
    /\ singleUse \in BOOLEAN
    /\ lastCompleted = 0
    /\ FirstRender(Visitor, Num(0))

\* --------------------------------------------------------------- actions
\* const useAxios = () => { ... return axiosInstance; }
\* Clients are numbered in the order they are created.
UseAxios(c) ==
    /\ ~clients[c].made
    /\ \A b \in Clients : b < c => clients[b].made
    /\ clients' = [clients EXCEPT ![c] =
          [made |-> TRUE,
           accessToken |-> cookies.access_token,
           refreshToken |-> cookies.refresh_token,
           headers |-> DefaultHeaders(cookies.access_token)]]
    /\ UNCHANGED <<cookies, now, reqs, validRefresh, everValid, issued, singleUse, lastCompleted,
                   indexVars>>

\* A caller sends request r through client c: the request takes the client's
\* default headers and the interceptor runs up to its return or first await.
\* Requests are numbered in the order they are sent.
Send(r, c) ==
    /\ reqs[r].pc = "idle"
    /\ \A q \in Requests : q < r => reqs[q].pc # "idle"
    /\ clients[c].made
    /\ LET req0 == [reqs[r] EXCEPT !.client = c,
                                   !.Authorization = clients[c].headers,
                                   !.before = cookies,
                                   !.concurrent = InFlight]
           req1 == Interceptor(req0, clients[c].accessToken,
                               clients[c].refreshToken, now)
       IN reqs' = [reqs EXCEPT ![r] = req1]
    /\ UNCHANGED <<cookies, now, clients, validRefresh, everValid, issued, singleUse,
                   lastCompleted,
                   indexVars>>

\* The refresh endpoint handles the renewal call of request r.
BackendRefresh(r) ==
    /\ reqs[r].pc = "awaiting"
    /\ IF reqs[r].sent \in validRefresh
       THEN /\ issued < 1 + MaxRenewals
            /\ issued' = issued + 1
            /\ validRefresh' = (IF singleUse THEN validRefresh \ {reqs[r].sent}
                                ELSE validRefresh) \cup {issued + 1}
            /\ everValid' = everValid \cup {issued + 1}
            /\ reqs' = [reqs EXCEPT ![r].pc = "responded",
                          ![r].response = Success(Jwt(issued + 1, now + Lifetime),
                                                  issued + 1)]
       ELSE /\ reqs' = [reqs EXCEPT ![r].pc = "responded", ![r].response = Failure]
            /\ UNCHANGED <<issued, validRefresh, everValid>>
    /\ UNCHANGED <<cookies, now, clients, singleUse, lastCompleted,
                   indexVars>>

\* The renewal call of request r is lost on the way there or back.
NetworkError(r) ==
    /\ \/ reqs[r].pc = "awaiting"
       \/ reqs[r].pc = "responded" /\ reqs[r].response.ok
    /\ reqs' = [reqs EXCEPT ![r].pc = "responded", ![r].response = Failure,
                            ![r].neterr = TRUE]
    /\ UNCHANGED <<cookies, now, clients, validRefresh, everValid, issued, singleUse, lastCompleted,
                   indexVars>>

\* The awaited renewal call of request r has settled: the interceptor resumes.
Resume(r) ==
    /\ reqs[r].pc = "responded"
    /\ LET out == AfterRenewal(reqs[r], reqs[r].response, cookies)
       IN /\ reqs' = [reqs EXCEPT ![r] = out.req]
          /\ cookies' = out.cookies
          /\ lastCompleted' = IF reqs[r].response.ok THEN r ELSE lastCompleted
    /\ UNCHANGED <<now, clients, validRefresh, everValid, issued, singleUse,
                   indexVars>>

\* Wall-clock time passes.
Tick ==
    /\ now < MaxTime
    /\ now' = now + 1
    /\ UNCHANGED <<cookies, clients, reqs, validRefresh, everValid, issued, singleUse, lastCompleted,
                   indexVars>>

Next ==
    \/ \E c \in Clients : UseAxios(c)
    \/ \E r \in Requests, c \in Clients : Send(r, c)
    \/ \E r \in Requests : BackendRefresh(r)
    \/ \E r \in Requests : NetworkError(r)
    \/ \E r \in Requests : Resume(r)
    \/ Tick

Spec == Init /\ [][Next]_vars

\* The pipeline at one instant of the clock, before the initial access
\* token expires (0) or after (MaxTime): the clients, the requests, the
\* backend and the network, without the passing of time.  The event loop runs the continuation of an await once the
\* awaited call has settled; nothing obliges the backend or the network to
\* settle it.
InitAnyTime ==
    /\ cookies \in [access_token : InitialAccess, refresh_token : InitialRefresh]
    /\ now \in {0, MaxTime}
    /\ clients = [c \in Clients |-> NoClient]
    /\ reqs = [r \in Requests |-> IdleRequest]
    /\ validRefresh \in {{}, {cookies.refresh_token}}
    /\ NoRefresh \notin validRefresh
    /\ everValid = validRefresh
    /\ issued = 1
    /\ singleUse \in BOOLEAN
    /\ lastCompleted = 0
    /\ FirstRender(Visitor, Num(0))

NextAtOneTime ==
    \/ \E c \in Clients : UseAxios(c)
    \/ \E r \in Requests, c \in Clients : Send(r, c)
    \/ \E r \in Requests : BackendRefresh(r)
    \/ \E r \in Requests : NetworkError(r)
    \/ \E r \in Requests : Resume(r)

FairSpec ==
    /\ InitAnyTime
    /\ [][NextAtOneTime]_vars
    /\ \A r \in Requests : WF_vars(Resume(r))

\* ------------------------------------------- a persist step that may throw
\* setAuthUser (auth.js) returns normally with both cookies written, or
\* throws: before writing anything, after the access token only, or after
\* both cookies were written.
SetAuthUserOutcomes(access, refresh, jar) ==
    { [threw |-> FALSE, cookies |-> setAuthUser(access, refresh)],
      [threw |-> TRUE, cookies |-> jar],
      [threw |-> TRUE, cookies |-> [jar EXCEPT !.access_token = access]],
      [threw |-> TRUE, cookies |-> setAuthUser(access, refresh)] }

\* The interceptor after the await, given how the call of setAuthUser ended:
\* a throw of setAuthUser leaves the try block before the header is
\* overwritten and is caught like a failed renewal call.
\* Variants: the header is overwritten before setAuthUser is called; the
\* cookies are written after the interceptor has returned.
MutAfterRenewalWithHeaderFirst(req, response, jar, persisted) ==
    IF response.ok
    THEN [req |-> [req EXCEPT !.Authorization = Bearer(response.access),
                              !.pc = "dispatched", !.threw = persisted.threw],
          cookies |-> persisted.cookies]
    ELSE [req |-> [req EXCEPT !.pc = "dispatched"], cookies |-> jar]
MutAfterRenewalWithDefersPersist(req, response, jar, persisted) ==
    IF response.ok
    THEN IF persisted.threw
         THEN [req |-> [req EXCEPT !.pc = "dispatched", !.threw = TRUE],
               cookies |-> persisted.cookies]
         ELSE [req |-> [req EXCEPT !.Authorization = Bearer(response.access),
                                   !.pc = "dispatched"],
               cookies |-> jar]
    ELSE [req |-> [req EXCEPT !.pc = "dispatched"], cookies |-> jar]
AfterRenewalWith(req, response, jar, persisted) ==
    IF response.ok
    THEN IF persisted.threw
         THEN [req |-> [req EXCEPT !.pc = "dispatched", !.threw = TRUE],
               cookies |-> persisted.cookies]
         ELSE [req |-> [req EXCEPT !.Authorization = Bearer(response.access),
                                   !.pc = "dispatched"],
               cookies |-> persisted.cookies]
    ELSE [req |-> [req EXCEPT !.pc = "dispatched"], cookies |-> jar]

\* The awaited renewal call of request r has settled: the interceptor
\* resumes, and setAuthUser ends in one of its ways.
ResumePersisting(r) ==
    /\ reqs[r].pc = "responded"
    /\ \E persisted \in SetAuthUserOutcomes(reqs[r].response.access,
                                            reqs[r].response.refresh, cookies) :
          LET out == AfterRenewalWith(reqs[r], reqs[r].response, cookies, persisted)
          IN /\ reqs' = [reqs EXCEPT ![r] = out.req]
             /\ cookies' = out.cookies
    /\ lastCompleted' = IF reqs[r].response.ok THEN r ELSE lastCompleted
    /\ UNCHANGED <<now, clients, validRefresh, everValid, issued, singleUse, indexVars>>

NextPersisting ==
    \/ \E c \in Clients : UseAxios(c)
    \/ \E r \in Requests, c \in Clients : Send(r, c)
    \/ \E r \in Requests : BackendRefresh(r)
    \/ \E r \in Requests : NetworkError(r)
    \/ \E r \in Requests : ResumePersisting(r)

SpecPersisting == InitAnyTime /\ [][NextPersisting]_vars

\* ------------------------------------------------- the expiry scenarios
\* A session whose access token was issued at time T with lifetime L, clients
\* created and requests sent at any later time up to MaxClock.
IssuedAts == 0..MaxIssuedAt
Lifetimes == 1..MaxLifetime

InitExpiry ==
    /\ \E T \in IssuedAts, L \in Lifetimes :
          /\ cookies = [access_token |-> Jwt(1, T + L), refresh_token |-> 1]
          /\ now = T
    /\ clients = [c \in Clients |-> NoClient]
    /\ reqs = [r \in Requests |-> IdleRequest]
    /\ validRefresh = {1}
    /\ everValid = {1}
    /\ issued = 1
    /\ singleUse \in BOOLEAN
    /\ lastCompleted = 0
    /\ FirstRender(Visitor, Num(0))

Advance ==
    /\ now < MaxClock
    /\ now' = now + 1
    /\ UNCHANGED <<cookies, clients, reqs, validRefresh, everValid, issued, singleUse, lastCompleted,
                   indexVars>>

NextExpiry ==
    \/ \E c \in Clients : UseAxios(c)
    \/ \E r \in Requests, c \in Clients : Send(r, c)
    \/ Advance

SpecExpiry == InitExpiry /\ [][NextExpiry]_vars

\* ------------------------------------------------- Index: the two fetches
\* res.data?.results || res.data || []
courseData(data) == Or(Or(Results(data), data), Arr(<<>>))
enrollmentData(data) == Or(Or(Results(data), data), Arr(<<>>))

\* fetchCourses after its await: the rest of the try block, or the catch,
\* then the finally.  Gives the state it sets.
\* Variants: setIsLoading(false) at the end of the try block and no finally;
\* setCourses(courseData) without Array.isArray.
MutAfterCourseListNoFinally(outcome) ==
    IF outcome.ok
    THEN [courses |-> IF IsArray(courseData(outcome.data))
                      THEN courseData(outcome.data) ELSE Arr(<<>>),
          isLoading |-> FALSE]
    ELSE [courses |-> Arr(<<>>), isLoading |-> TRUE]
MutAfterCourseListAnyShape(outcome) ==
    IF outcome.ok
    THEN [courses |-> courseData(outcome.data), isLoading |-> FALSE]
    ELSE [courses |-> Arr(<<>>), isLoading |-> FALSE]
AfterCourseList(outcome) ==
    IF outcome.ok
    THEN [courses |-> IF IsArray(courseData(outcome.data))
                      THEN courseData(outcome.data) ELSE Arr(<<>>),
          isLoading |-> FALSE]
    ELSE [courses |-> Arr(<<>>), isLoading |-> FALSE]

\* fetchEnrolledCourses after its await: the rest of the try block, or the catch.
AfterStudentList(outcome) ==
    IF outcome.ok
    THEN IF IsArray(enrollmentData(outcome.data))
         THEN enrollmentData(outcome.data) ELSE Arr(<<>>)
    ELSE Arr(<<>>)

\* useEffect(() => { fetchCourses(); if (isLoggedIn()) fetchEnrolledCourses(); }, [])
\* Each of the two runs up to its await: fetchCourses sets isLoading and
\* asks for the course list; fetchEnrolledCourses asks for the student's
\* list when there is a user id, and does nothing without one.
Mount ==
    /\ ~mounted
    /\ mounted' = TRUE
    /\ isLoading' = TRUE
    /\ courseFetch' = [courseFetch EXCEPT !.pc = "awaiting"]
    /\ enrolledFetch' = IF user.loggedIn /\ user.userId # 0
                        THEN [enrolledFetch EXCEPT !.pc = "awaiting"]
                        ELSE enrolledFetch
    /\ UNCHANGED <<courses, enrolledCourses, cartCount, user, adds, pipelineVars>>

\* The course-list request completes: a response of some shape, or an error.
CourseListResponds(outcome) ==
    /\ courseFetch.pc = "awaiting"
    /\ courseFetch' = [pc |-> "settled", outcome |-> outcome]
    /\ UNCHANGED <<courses, enrolledCourses, isLoading, cartCount, user, mounted,
                   enrolledFetch, adds, pipelineVars>>

\* fetchCourses resumes after its await.
FetchCoursesResume ==
    /\ courseFetch.pc = "settled"
    /\ LET out == AfterCourseList(courseFetch.outcome)
       IN /\ courses' = out.courses
          /\ isLoading' = out.isLoading
    /\ courseFetch' = [courseFetch EXCEPT !.pc = "done"]
    /\ UNCHANGED <<enrolledCourses, cartCount, user, mounted, enrolledFetch, adds,
                   pipelineVars>>

\* The student's course-list request completes.
StudentListResponds(outcome) ==
    /\ enrolledFetch.pc = "awaiting"
    /\ enrolledFetch' = [pc |-> "settled", outcome |-> outcome]
    /\ UNCHANGED <<courses, enrolledCourses, isLoading, cartCount, user, mounted,
                   courseFetch, adds, pipelineVars>>

\* fetchEnrolledCourses resumes after its await.
FetchEnrolledResume ==
    /\ enrolledFetch.pc = "settled"
    /\ enrolledCourses' = AfterStudentList(enrolledFetch.outcome)
    /\ enrolledFetch' = [enrolledFetch EXCEPT !.pc = "done"]
    /\ UNCHANGED <<courses, isLoading, cartCount, user, mounted, courseFetch, adds,
                   pipelineVars>>

\* The page is rendered for any user; the pipeline is at rest, and what the
\* requests sent through it end with is the backend's and the network's choice.
PipelineAtRest ==
    /\ cookies = NoCookies
    /\ now = 0
    /\ clients = [c \in Clients |-> NoClient]
    /\ reqs = [r \in Requests |-> IdleRequest]
    /\ validRefresh = {}
    /\ everValid = {}
    /\ issued = 1
    /\ singleUse = FALSE
    /\ lastCompleted = 0

InitIndex ==
    /\ PipelineAtRest
    /\ \E u \in Users : FirstRender(u, Num(0))

NextIndex ==
    \/ Mount
    \/ \E outcome \in Outcomes : CourseListResponds(outcome)
    \/ FetchCoursesResume
    \/ \E outcome \in Outcomes : StudentListResponds(outcome)
    \/ FetchEnrolledResume

SpecIndex == InitIndex /\ [][NextIndex]_vars

\* The event loop runs the continuation of fetchCourses once the awaited
\* request has completed; nothing obliges the request to complete.
FairSpecIndex == SpecIndex /\ WF_vars(FetchCoursesResume)

\* ------------------------------------------------------ Index: addToCart
\* addToCart after the POST: the toast and the cart-list GET, or the catch.
\* Variant: the cart list is fetched again whatever the POST ended with.
MutAfterCartPostAlwaysLists(add) ==
    IF add.posted
    THEN [add EXCEPT !.toast = TRUE, !.get = TRUE, !.pc = "listing"]
    ELSE [add EXCEPT !.get = TRUE, !.pc = "listing"]
AfterCartPost(add) ==
    IF add.posted
    THEN [add EXCEPT !.toast = TRUE, !.get = TRUE, !.pc = "listing"]
    ELSE [add EXCEPT !.pc = "done"]

\* addToCart after the GET: setCartCount(res.data?.length), or the catch.
AfterCartList(outcome, count) == IF outcome.ok THEN Length(outcome.data) ELSE count

\* A button calls addToCart: it runs up to its first await, the POST.
\* The calls are numbered in the order they are made.
AddToCart(a) ==
    /\ adds[a].pc = "idle"
    /\ \A b \in Adds : b < a => adds[b].pc # "idle"
    /\ adds' = [adds EXCEPT ![a].pc = "posting"]
    /\ UNCHANGED <<courses, enrolledCourses, isLoading, cartCount, user, mounted,
                   courseFetch, enrolledFetch, pipelineVars>>

\* The POST of call a completes, accepted or not.
CartPostResponds(a, ok) ==
    /\ adds[a].pc = "posting"
    /\ adds' = [adds EXCEPT ![a].pc = "postSettled", ![a].posted = ok]
    /\ UNCHANGED <<courses, enrolledCourses, isLoading, cartCount, user, mounted,
                   courseFetch, enrolledFetch, pipelineVars>>

\* addToCart resumes after the POST and runs up to its second await or its end.
AddToCartAfterPost(a) ==
    /\ adds[a].pc = "postSettled"
    /\ adds' = [adds EXCEPT ![a] = AfterCartPost(adds[a])]
    /\ UNCHANGED <<courses, enrolledCourses, isLoading, cartCount, user, mounted,
                   courseFetch, enrolledFetch, pipelineVars>>

\* The cart-list GET of call a completes.
CartListResponds(a, outcome) ==
    /\ adds[a].pc = "listing"
    /\ adds' = [adds EXCEPT ![a].pc = "listSettled", ![a].outcome = outcome]
    /\ UNCHANGED <<courses, enrolledCourses, isLoading, cartCount, user, mounted,
                   courseFetch, enrolledFetch, pipelineVars>>

\* addToCart resumes after the GET.
AddToCartAfterList(a) ==
    /\ adds[a].pc = "listSettled"
    /\ cartCount' = AfterCartList(adds[a].outcome, cartCount)
    /\ adds' = [adds EXCEPT ![a].pc = "done"]
    /\ UNCHANGED <<courses, enrolledCourses, isLoading, user, mounted,
                   courseFetch, enrolledFetch, pipelineVars>>

\* The page with up to MaxItems items counted in the cart context.
InitCart ==
    /\ PipelineAtRest
    /\ \E n \in 0..MaxItems : FirstRender(Visitor, Num(n))

NextCart ==
    \/ \E a \in Adds : AddToCart(a)
    \/ \E a \in Adds, ok \in BOOLEAN : CartPostResponds(a, ok)
    \/ \E a \in Adds : AddToCartAfterPost(a)
    \/ \E a \in Adds, outcome \in CartOutcomes : CartListResponds(a, outcome)
    \/ \E a \in Adds : AddToCartAfterList(a)

SpecCart == InitCart /\ [][NextCart]_vars

\* ---------------------------------------------------------------- claims
\* What the client that request r went through captured at construction.
Captured(r) == clients[reqs[r].client]
Started(r) == reqs[r].pc # "idle"
Dispatched(r) == reqs[r].pc = "dispatched"
\* A caller sends request r in this step.
Sent(r) == reqs[r].pc = "idle" /\ reqs'[r].pc # "idle"
\* Request r leaves the pipeline in this step.
Leaves(r) == reqs[r].pc # "dispatched" /\ reqs'[r].pc = "dispatched"
\* The credential pair a successful renewal call returned.
Pair(response) == [access_token |-> response.access, refresh_token |-> response.refresh]

\* C1: a request sent through a client that was created while the cookies
\* held neither an access token nor a refresh token is dispatched with no
\* Authorization header and without a renewal call.
C1_AnonymousPassThrough ==
    \A r \in Requests :
        (Started(r) /\ ~Truthy(Captured(r).accessToken)
                    /\ Captured(r).refreshToken = NoRefresh)
        => /\ Dispatched(r)
           /\ reqs[r].Authorization = NoHeader
           /\ reqs[r].calls = 0

C1_Witness ==
    \E r \in Requests :
        /\ Dispatched(r)
        /\ ~Truthy(Captured(r).accessToken)
        /\ Captured(r).refreshToken = NoRefresh
        /\ cookies = NoCookies

\* C2: a request sent through a client whose captured access token
\* isAccessTokenExpired reports as not expired at that moment is dispatched
\* at once with Authorization exactly Bearer <that token> and without a
\* renewal call, and nothing changes a dispatched request afterwards.
C2_ValidTokenPassThrough ==
    [][\A r \in Requests :
          /\ (Sent(r) /\ Truthy(clients[reqs'[r].client].accessToken)
                      /\ ~isAccessTokenExpired(clients[reqs'[r].client].accessToken, now))
             => /\ reqs'[r].pc = "dispatched"
                /\ reqs'[r].Authorization = Bearer(clients[reqs'[r].client].accessToken)
                /\ reqs'[r].calls = 0
          /\ Dispatched(r) => reqs'[r] = reqs[r]]_vars

C2_Witness ==
    \E r \in Requests :
        /\ Dispatched(r)
        /\ reqs[r].calls = 0
        /\ Captured(r).refreshToken # NoRefresh
        /\ Captured(r).accessToken.ok
        /\ now < Captured(r).accessToken.exp
        /\ reqs[r].Authorization = Bearer(cookies.access_token)

\* C3: when the renewal call of a request with an expired access token comes
\* back accepted, the request leaves the pipeline having made exactly one
\* renewal call, the cookies hold the returned access/refresh pair, and the
\* request carries Bearer <new access token>.
C3_RenewalSuccess ==
    [][\A r \in Requests :
          (Leaves(r) /\ reqs[r].pc = "responded" /\ reqs[r].response.ok)
          => /\ isAccessTokenExpired(Captured(r).accessToken, now)
             /\ reqs'[r].calls = 1
             /\ cookies' = Pair(reqs[r].response)
             /\ reqs'[r].Authorization = Bearer(reqs[r].response.access)
             /\ reqs[r].response.access # Captured(r).accessToken]_vars

C3_Witness ==
    \E r \in Requests :
        /\ Dispatched(r)
        /\ reqs[r].response.ok
        /\ reqs[r].calls = 1
        /\ cookies = Pair(reqs[r].response)
        /\ cookies # reqs[r].before
        /\ reqs[r].Authorization = Bearer(cookies.access_token)

\* The interceptor of request r resumes in this step after a renewal call
\* that failed.
ResumesAfterFailure(r) ==
    /\ reqs[r].pc = "responded"
    /\ ~reqs[r].response.ok
    /\ reqs'[r] # reqs[r]

\* C4 as stated: after a failed renewal call the request is dispatched with
\* the stale access token and the cookies are exactly what they were before
\* the request was sent.
C4_Original ==
    [][\A r \in Requests :
          ResumesAfterFailure(r)
          => /\ reqs'[r].pc = "dispatched"
             /\ reqs'[r].Authorization = Bearer(Captured(r).accessToken)
             /\ cookies' = reqs[r].before]_vars

\* C4 (amended): after a failed renewal call the request is dispatched with
\* the stale access token, and the interception of that request writes
\* nothing: the cookies are what they were when the failed call returned.
C4_RenewalFailure ==
    [][\A r \in Requests :
          ResumesAfterFailure(r)
          => /\ reqs'[r].pc = "dispatched"
             /\ reqs'[r].Authorization = Bearer(Captured(r).accessToken)
             /\ reqs'[r].Authorization = reqs[r].Authorization
             /\ isAccessTokenExpired(Captured(r).accessToken, now)
             /\ cookies' = cookies]_vars

C4_Witness ==
    \E r \in Requests :
        /\ Dispatched(r)
        /\ reqs[r].calls = 1
        /\ ~reqs[r].response.ok
        /\ reqs[r].Authorization = Bearer(Captured(r).accessToken)
        /\ cookies # reqs[r].before

\* The access token request r carries as it leaves the pipeline.
Attached(r) == reqs'[r].Authorization.credentials
CapturedAfter(r) == clients[reqs'[r].client]
Authenticated(r) == reqs'[r].Authorization # NoHeader
ValidNow(r) == ~isAccessTokenExpired(Attached(r), now)
JustRenewed(r) ==
    /\ reqs[r].pc = "responded"
    /\ reqs[r].response.ok
    /\ Attached(r) = reqs[r].response.access

\* C5 as stated: the access token attached to an authenticated request as it
\* leaves the pipeline is currently valid, or comes from a renewal performed
\* during that request's interception.
C5_Original ==
    [][\A r \in Requests :
          (Leaves(r) /\ Authenticated(r)) => (ValidNow(r) \/ JustRenewed(r))]_vars

\* C5 (amended): the access token attached to an authenticated request as it
\* leaves the pipeline is currently valid, or comes from a renewal performed
\* during that request's interception, or is the client's captured token of
\* a request whose renewal call failed, or of a client that holds no refresh
\* token (whose requests are never checked).
C5_AttachedToken ==
    [][\A r \in Requests :
          (Leaves(r) /\ Authenticated(r))
          => \/ ValidNow(r)
             \/ JustRenewed(r)
             \/ /\ reqs[r].pc = "responded"
                /\ ~reqs[r].response.ok
                /\ Attached(r) = CapturedAfter(r).accessToken
             \/ /\ CapturedAfter(r).refreshToken = NoRefresh
                /\ Attached(r) = CapturedAfter(r).accessToken]_vars

C5_Witness ==
    \E r \in Requests :
        /\ Dispatched(r)
        /\ reqs[r].calls = 1
        /\ ~reqs[r].response.ok
        /\ Captured(r).accessToken.ok
        /\ reqs[r].Authorization = Bearer(Captured(r).accessToken)
        /\ isAccessTokenExpired(reqs[r].Authorization.credentials, now)
        /\ cookies = reqs[r].before

\* C6: the interceptor never rejects: a request is unsent, suspended at the
\* awaited renewal call, or returned for dispatch, whatever the stored
\* credentials, the decode outcome and the renewal outcome.
C6_NeverThrows ==
    \A r \in Requests : reqs[r].pc \in {"idle", "awaiting", "responded", "dispatched"}

C6_Witness ==
    \E r \in Requests :
        /\ Dispatched(r)
        /\ ~Captured(r).accessToken.ok
        /\ Truthy(Captured(r).accessToken)
        /\ reqs[r].calls = 1
        /\ ~reqs[r].response.ok

\* C7: no request makes more than one renewal call: none is made on the
\* pass-through paths, and a failed one is not retried.
C7_AtMostOneRenewal ==
    \A r \in Requests :
        /\ reqs[r].calls <= 1
        /\ (r \in InFlight) => reqs[r].calls = 1

C7_Witness ==
    \E r \in Requests :
        /\ Dispatched(r)
        /\ reqs[r].calls = 1
        /\ ~reqs[r].response.ok
        /\ reqs[r].neterr

\* C8: two requests that have been sent and have not left the pipeline each
\* have their own renewal call in flight, made with the refresh token their
\* client captured: there is no single-flight deduplication.
Pending(r) == Started(r) /\ ~Dispatched(r)

C8_IndependentRenewals ==
    \A r1, r2 \in Requests :
        (r1 # r2 /\ Pending(r1) /\ Pending(r2))
        => /\ {r1, r2} \subseteq InFlight
           /\ reqs[r1].calls = 1 /\ reqs[r2].calls = 1
           /\ reqs[r1].sent = Captured(r1).refreshToken
           /\ reqs[r2].sent = Captured(r2).refreshToken
           /\ isAccessTokenExpired(Captured(r1).accessToken, now)
           /\ isAccessTokenExpired(Captured(r2).accessToken, now)

C8_Witness ==
    \E r1, r2 \in Requests :
        /\ r1 # r2
        /\ reqs[r1].pc = "awaiting" /\ reqs[r2].pc = "awaiting"
        /\ reqs[r1].sent = reqs[r2].sent
        /\ reqs[r1].sent # NoRefresh
        /\ r1 \in reqs[r2].concurrent

\* C9: two requests race past expiry with one refresh token that the backend
\* accepts once, and no call is lost on the network: once both interceptions
\* are over both requests have been dispatched, exactly one renewal was
\* accepted, that request carries the new access token and the other one
\* the stale token.
Completed(r) == Started(r) /\ r \notin InFlight
Race(r1, r2) ==
    /\ r1 # r2
    /\ singleUse
    /\ r1 \in reqs[r2].concurrent
    /\ reqs[r1].sent = reqs[r2].sent
    /\ reqs[r1].sent \in everValid
    /\ \A q \in Requests \ {r1, r2} : reqs[q].sent # reqs[r1].sent
    /\ ~reqs[r1].neterr /\ ~reqs[r2].neterr

Outcome(winner, loser) ==
    /\ reqs[winner].response.ok
    /\ ~reqs[loser].response.ok
    /\ reqs[winner].Authorization = Bearer(reqs[winner].response.access)
    /\ reqs[winner].response.access # Captured(winner).accessToken
    /\ reqs[loser].Authorization = Bearer(Captured(loser).accessToken)

C9_SingleUseRace ==
    \A r1, r2 \in Requests :
        (Race(r1, r2) /\ Completed(r1) /\ Completed(r2))
        => /\ Dispatched(r1) /\ Dispatched(r2)
           /\ Outcome(r1, r2) \/ Outcome(r2, r1)

C9_Witness ==
    \E r1, r2 \in Requests :
        /\ Race(r1, r2)
        /\ Dispatched(r1) /\ Dispatched(r2)
        /\ Outcome(r2, r1)

\* C10: the cookies are last-writer-wins: once a renewal has succeeded, the
\* cookies hold exactly the pair returned to the renewal that completed
\* last, both tokens of it, also when two concurrent renewals succeeded.
C10_LastWriterWins ==
    lastCompleted # 0 => cookies = Pair(reqs[lastCompleted].response)

C10_Witness ==
    \E r1, r2 \in Requests :
        /\ r1 # r2
        /\ r1 \in reqs[r2].concurrent
        /\ Dispatched(r1) /\ Dispatched(r2)
        /\ reqs[r1].response.ok /\ reqs[r2].response.ok
        /\ lastCompleted = r1
        /\ reqs[r1].response.refresh < reqs[r2].response.refresh
        /\ cookies = Pair(reqs[r1].response)
        /\ cookies.refresh_token # reqs[r2].response.refresh

\* C11 as stated: when a renewal call fails, the persisted credential pair
\* is deleted.
C11_Original ==
    [][\A r \in Requests : ResumesAfterFailure(r) => cookies' = NoCookies]_vars

\* C11 (amended): when a renewal call fails, the pipeline does not delete the
\* persisted credential pair: both cookies are still present, with the
\* values they had when the call failed.
C11_KeptOnFailure ==
    [][\A r \in Requests :
          ResumesAfterFailure(r)
          => /\ Truthy(cookies'.access_token)
             /\ cookies'.refresh_token # NoRefresh
             /\ cookies'.access_token = cookies.access_token
             /\ cookies'.refresh_token = cookies.refresh_token]_vars

C11_Witness ==
    \E r \in Requests :
        /\ Dispatched(r)
        /\ reqs[r].calls = 1
        /\ ~reqs[r].response.ok
        /\ ~reqs[r].neterr
        /\ cookies = reqs[r].before
        /\ cookies.refresh_token = reqs[r].sent
        /\ Truthy(cookies.access_token)

\* C12: an access token that does not decode is treated like an expired
\* one: with a refresh token present the request makes exactly one renewal
\* call with it, and the interception raises no error.
Undecodable(t) == Truthy(t) /\ ~t.ok

C12_UndecodableRenews ==
    \A r \in Requests :
        (Started(r) /\ Undecodable(Captured(r).accessToken)
                    /\ Captured(r).refreshToken # NoRefresh)
        => /\ reqs[r].calls = 1
           /\ reqs[r].sent = Captured(r).refreshToken
           /\ reqs[r].pc \in {"awaiting", "responded", "dispatched"}

C12_Witness ==
    \E r \in Requests :
        /\ Dispatched(r)
        /\ Undecodable(Captured(r).accessToken)
        /\ reqs[r].calls = 1
        /\ reqs[r].response.ok
        /\ reqs[r].Authorization = Bearer(reqs[r].response.access)

\* C13: a client leaves construction with the default header Bearer <access
\* token> exactly when the cookies hold an access token at that moment,
\* with or without a refresh token, and with no default Authorization
\* header otherwise.
Constructed(c) == ~clients[c].made /\ clients'[c].made

C13_DefaultHeader ==
    [][\A c \in Clients :
          Constructed(c)
          => /\ Truthy(cookies.access_token)
                => clients'[c].headers = Bearer(cookies.access_token)
             /\ ~Truthy(cookies.access_token)
                => clients'[c].headers = NoHeader]_vars

C13_Witness ==
    \E c \in Clients :
        /\ clients[c].made
        /\ clients[c].headers = Bearer(cookies.access_token)
        /\ Truthy(cookies.access_token)
        /\ cookies.refresh_token = NoRefresh

\* C14: for a token issued at T with lifetime L, a request sent before T + L
\* is dispatched at once with the original token and no renewal call, and a
\* request sent after T + L starts a renewal call.
C14_ExpiryScenarios ==
    [][\A r \in Requests :
          Sent(r)
          => \A T \in IssuedAts, L \in Lifetimes :
                CapturedAfter(r).accessToken = Jwt(1, T + L)
                => /\ now < T + L
                      => /\ reqs'[r].pc = "dispatched"
                         /\ reqs'[r].calls = 0
                         /\ reqs'[r].Authorization = Bearer(Jwt(1, T + L))
                   /\ now > T + L
                      => /\ reqs'[r].pc = "awaiting"
                         /\ reqs'[r].calls = 1]_vars

\* Issued at 0 with lifetime 5: one request went out before 5 unrenewed, one
\* sent later is renewing, and the clock stands at 10.
C14_Witness ==
    \E r1, r2 \in Requests :
        /\ now = 10
        /\ Dispatched(r1) /\ reqs[r1].calls = 0
        /\ reqs[r1].Authorization = Bearer(Jwt(1, 5))
        /\ reqs[r2].pc = "awaiting" /\ reqs[r2].calls = 1
        /\ Captured(r2).accessToken = Jwt(1, 5)
        /\ reqs[r2].concurrent = {}

\* C16: a request whose renewal call has settled, with success or failure,
\* is eventually dispatched, and one that makes no renewal call is
\* dispatched at once; the pipeline has no timeout: a request waiting for
\* its renewal call stays waiting until the call settles.
C16_EventuallyDispatched ==
    /\ \A r \in Requests : (reqs[r].pc = "responded") ~> Dispatched(r)
    /\ [](\A r \in Requests : (Started(r) /\ r \notin InFlight) => Dispatched(r))
    /\ [][\A r \in Requests :
             reqs[r].pc = "awaiting" => reqs'[r].pc \in {"awaiting", "responded"}]_vars

C16_Witness ==
    \E r1, r2 \in Requests :
        /\ Dispatched(r1) /\ reqs[r1].calls = 1 /\ reqs[r1].neterr
        /\ reqs[r2].pc = "awaiting"
        /\ reqs[r2].sent = reqs[r1].sent

\* C17: a request that started a renewal call is dispatched only after that
\* call has settled: it never leaves the pipeline in the step that starts
\* the call, nor while the call is still with the backend.
C17_DispatchAfterRenewal ==
    [][\A r \in Requests :
          (Leaves(r) /\ reqs'[r].calls >= 1)
          => /\ reqs[r].pc = "responded"
             /\ reqs[r].calls = reqs'[r].calls]_vars

C17_Witness ==
    \E r1, r2 \in Requests :
        /\ r1 < r2
        /\ reqs[r1].pc = "responded" /\ reqs[r1].response.ok
        /\ Dispatched(r2) /\ reqs[r2].calls = 1 /\ reqs[r2].response.ok

\* C18: the cookies change only in the step in which an interceptor resumes
\* after an accepted renewal call, and then to the returned pair: client
\* construction, the anonymous path, the valid-token path and the
\* failed-renewal path leave both cookies as they are.
C18_WritesOnlyOnSuccess ==
    [][(cookies' # cookies)
       => \E r \in Requests :
             /\ reqs[r].pc = "responded"
             /\ reqs[r].response.ok
             /\ Leaves(r)
             /\ cookies' = Pair(reqs[r].response)
             /\ clients' = clients]_vars

C18_Witness ==
    \E r1, r2 \in Requests :
        /\ Dispatched(r1) /\ reqs[r1].response.ok
        /\ cookies = Pair(reqs[r1].response)
        /\ Dispatched(r2) /\ reqs[r2].calls = 0
        /\ reqs[r2].before = cookies
        /\ \A c \in Clients : clients[c].made

\* C19: when the client captured exactly one of the two tokens, its requests
\* pass through with no expiry check and no renewal call: with only an
\* access token the request carries that token, expired or not, and with
\* only a refresh token it carries no Authorization header.
OnlyAccess(c) == Truthy(clients[c].accessToken) /\ clients[c].refreshToken = NoRefresh
OnlyRefresh(c) == ~Truthy(clients[c].accessToken) /\ clients[c].refreshToken # NoRefresh

C19_OneTokenMissing ==
    \A r \in Requests :
        Started(r)
        => /\ OnlyAccess(reqs[r].client)
              => /\ Dispatched(r)
                 /\ reqs[r].calls = 0
                 /\ reqs[r].Authorization = Bearer(Captured(r).accessToken)
           /\ OnlyRefresh(reqs[r].client)
              => /\ Dispatched(r)
                 /\ reqs[r].calls = 0
                 /\ reqs[r].Authorization = NoHeader

\* An access-only client whose token counts as expired at every instant, so
\* also when the request was sent.
C19_Witness ==
    \E r \in Requests :
        /\ Dispatched(r)
        /\ OnlyAccess(reqs[r].client)
        /\ \A t \in 0..MaxTime : isAccessTokenExpired(Captured(r).accessToken, t)
        /\ reqs[r].calls = 0
        /\ reqs[r].Authorization = Bearer(Captured(r).accessToken)

\* C20: the interceptor decides on the pair its client captured, not on the
\* cookies at interception time: a request sent through a client whose
\* captured access token is expired starts a renewal call with the captured
\* refresh token and the captured token in its header, also when the
\* cookies already hold a newer pair.
UsesCaptured(r) ==
    /\ reqs'[r].Authorization = Bearer(CapturedAfter(r).accessToken)
    /\ reqs'[r].pc = "awaiting"
    /\ reqs'[r].calls = 1
    /\ reqs'[r].sent = CapturedAfter(r).refreshToken

C20_CapturedPair ==
    [][\A r \in Requests :
          (/\ Sent(r)
           /\ ~SkipRefresh(CapturedAfter(r).accessToken, CapturedAfter(r).refreshToken)
           /\ isAccessTokenExpired(CapturedAfter(r).accessToken, now))
          => UsesCaptured(r)]_vars

\* A second request through the same client, sent after the first one's
\* renewal was persisted and while the new access token is still valid.
C20_Witness ==
    \E r1, r2 \in Requests :
        /\ r1 < r2
        /\ reqs[r1].client = reqs[r2].client
        /\ Dispatched(r1) /\ reqs[r1].response.ok
        /\ reqs[r2].pc = "awaiting"
        /\ reqs[r2].before = Pair(reqs[r1].response)
        /\ cookies = reqs[r2].before
        /\ ~isAccessTokenExpired(cookies.access_token, now)
        /\ reqs[r2].sent = reqs[r1].sent
        /\ reqs[r2].sent # cookies.refresh_token
        /\ reqs[r2].Authorization # Bearer(cookies.access_token)

\* The interceptor of request r resumes in this step after a renewal call
\* that was accepted and whose response was not lost on the way back.
ResumesAfterSuccess(r) ==
    /\ reqs[r].pc = "responded"
    /\ reqs[r].response.ok
    /\ reqs'[r].pc # "responded"

\* C21: when the interceptor returns the request on the successful-renewal
\* path (the call was accepted and setAuthUser returned), the access token in
\* the request's Authorization header is the access token the cookies hold
\* at that moment, the one the renewal returned: persisting and overwriting
\* are one step.
C21_HeaderIsPersistedToken ==
    [][\A r \in Requests :
          (ResumesAfterSuccess(r) /\ ~reqs'[r].threw)
          => /\ Leaves(r)
             /\ Authenticated(r)
             /\ Attached(r) = cookies'.access_token
             /\ Attached(r) = reqs[r].response.access]_vars

\* Two renewals were accepted concurrently; one interceptor has returned, the
\* other has not resumed yet.
C21_Witness ==
    \E r1, r2 \in Requests :
        /\ r1 \in reqs[r2].concurrent
        /\ Dispatched(r2) /\ reqs[r2].response.ok /\ ~reqs[r2].threw
        /\ reqs[r2].Authorization = Bearer(cookies.access_token)
        /\ cookies = Pair(reqs[r2].response)
        /\ reqs[r1].pc = "responded" /\ reqs[r1].response.ok

\* C22: when the renewal call was accepted and setAuthUser throws, the
\* interceptor still returns the request, with the header it had (the stale
\* captured token); the header holds the new token only if setAuthUser
\* returned normally, and then the cookies hold the new pair.
C22_PersistThrows ==
    [][\A r \in Requests :
          ResumesAfterSuccess(r)
          => /\ reqs'[r].pc = "dispatched"
             /\ reqs'[r].threw
                => /\ reqs'[r].Authorization = reqs[r].Authorization
                   /\ Attached(r) = Captured(r).accessToken
                   /\ Attached(r) # reqs[r].response.access
             /\ Attached(r) = reqs[r].response.access
                => /\ ~reqs'[r].threw
                   /\ cookies' = Pair(reqs[r].response)]_vars

\* setAuthUser threw after it had written both cookies: the cookies hold the
\* new pair and the request went out with the stale token.
C22_Witness ==
    \E r \in Requests :
        /\ Dispatched(r)
        /\ reqs[r].response.ok
        /\ reqs[r].threw
        /\ reqs[r].Authorization = Bearer(Captured(r).accessToken)
        /\ cookies = Pair(reqs[r].response)
        /\ cookies.access_token # Captured(r).accessToken

\* C23: requests are not dispatched in the order they were issued: while an
\* earlier request has not left the pipeline, a later one that makes no
\* renewal call is dispatched at once, and a later one whose renewal call
\* has settled can resume; nothing makes it wait for the earlier one.
C23_NoOrderingGuarantee ==
    \A r1, r2 \in Requests :
        (r1 < r2 /\ Pending(r1) /\ Started(r2))
        => /\ reqs[r2].pc \in {"awaiting", "responded", "dispatched"}
           /\ reqs[r2].calls = 0 => Dispatched(r2)
           /\ reqs[r2].pc = "responded" => ENABLED Resume(r2)

\* The earlier request still awaits its renewal call; the later one was
\* sent meanwhile, renewed, and has been dispatched.
C23_Witness ==
    \E r1, r2 \in Requests :
        /\ r1 < r2
        /\ r1 \in reqs[r2].concurrent
        /\ reqs[r1].pc = "awaiting"
        /\ Dispatched(r2)
        /\ reqs[r2].calls = 1
        /\ reqs[r2].response.ok

\* C24: fetchCourses sets isLoading when it starts and isLoading stays set
\* while the course-list request is out; once the request has completed,
\* with a response or with an error, fetchCourses clears isLoading, and it
\* is clear from then on.
C24_LoadingEnds ==
    /\ [](courseFetch.pc \in {"awaiting", "settled"} => isLoading)
    /\ (courseFetch.pc = "settled") ~> ~isLoading
    /\ [](courseFetch.pc = "done" => ~isLoading)

C24_Witness ==
    /\ courseFetch.pc = "done"
    /\ ~courseFetch.outcome.ok
    /\ ~isLoading
    /\ enrolledFetch.pc = "awaiting"

\* The arrays a response carries: its body, or its body's results.
ReturnedArrays(outcome) ==
    IF outcome.ok
    THEN {v \in {outcome.data, Results(outcome.data)} : IsArray(v)}
    ELSE {}
\* What the page shows after a fetch that ended with outcome.
Shows(list, outcome) ==
    /\ list \in ReturnedArrays(outcome) \cup {Arr(<<>>)}
    /\ ReturnedArrays(outcome) # {} => list \in ReturnedArrays(outcome)

\* C25: courses and enrolledCourses are arrays at every moment; after a fetch
\* each is the array the response carried (the body itself, or the results
\* of a paginated body), and the empty array after any other body and after
\* a failed request.
C25_AlwaysArrays ==
    /\ IsArray(courses)
    /\ IsArray(enrolledCourses)
    /\ courseFetch.pc = "done" => Shows(courses, courseFetch.outcome)
    /\ enrolledFetch.pc = "done" => Shows(enrolledCourses, enrolledFetch.outcome)
    /\ courseFetch.pc # "done" => courses = Arr(<<>>)
    /\ enrolledFetch.pc # "done" => enrolledCourses = Arr(<<>>)

\* The course list came back as an object whose results are a string, the
\* student's list as a paginated object.
C25_Witness ==
    /\ courseFetch.pc = "done"
    /\ courseFetch.outcome = Resolved(Obj(Str(<<1>>)))
    /\ courses = Arr(<<>>)
    /\ enrolledFetch.pc = "done"
    /\ enrolledFetch.outcome = Resolved(Obj(Arr(<<1>>)))
    /\ enrolledCourses = Arr(<<1>>)

\* Call a of addToCart resumes in this step after its POST.
ResumesAfterPost(a) == adds[a].pc = "postSettled" /\ adds'[a].pc # "postSettled"
\* Call a of addToCart resumes in this step after its cart-list GET.
ResumesAfterList(a) == adds[a].pc = "listSettled" /\ adds'[a].pc # "listSettled"

\* C26: the cart count changes only in the step in which a call of addToCart
\* resumes after a cart-list GET that succeeded, which it issued after its
\* POST had succeeded; a call whose POST failed ends there, with no toast,
\* no cart-list GET and the cart count as it was.
C26_CartCountAfterBoth ==
    /\ [][(cartCount' # cartCount)
          => \E a \in Adds :
                /\ ResumesAfterList(a)
                /\ adds[a].posted /\ adds[a].toast /\ adds[a].get
                /\ adds[a].outcome.ok
                /\ cartCount' = Length(adds[a].outcome.data)]_vars
    /\ [][\A a \in Adds :
             (ResumesAfterPost(a) /\ ~adds[a].posted)
             => /\ adds'[a].pc = "done"
                /\ ~adds'[a].toast /\ ~adds'[a].get
                /\ cartCount' = cartCount]_vars
    /\ [](\A a \in Adds :
             /\ adds[a].get => adds[a].posted /\ adds[a].toast
             /\ adds[a].pc \in {"listing", "listSettled"} => adds[a].get)

\* One call failed at its POST and left the count alone; a later one went
\* through and set it.
C26_Witness ==
    \E a1, a2 \in Adds :
        /\ a1 < a2
        /\ adds[a1].pc = "done" /\ ~adds[a1].posted /\ ~adds[a1].toast /\ ~adds[a1].get
        /\ adds[a2].pc = "done" /\ adds[a2].posted /\ adds[a2].toast
        /\ adds[a2].outcome = Resolved(Arr(<<1>>))
        /\ cartCount = Num(1)

====
